---- MODULE Spec2Model ----
(***************************************************************************)
(* The Fetch core of components/net/fetch/methods.rs as a state machine.   *)
(* One fetch runs on one thread; the calls it makes (main_fetch,           *)
(* http_fetch, cors_preflight_fetch, http_redirect_fetch, ...) are in tail *)
(* position up to the outermost main_fetch, so the thread is modelled by a *)
(* program counter and the arguments of the innermost call.  The body      *)
(* reader spawned by http_network_fetch is a second process.               *)
(***************************************************************************)
EXTENDS Integers, Sequences, FiniteSets, TLC

VARIABLES
    request,        \* the Request shared by every algorithm of one fetch
    cache,          \* the CORSCache handed to fetch_with_cors_cache
    now,            \* the clock the CORS cache reads
    pc,             \* where the fetch thread is
    cors_flag,      \* arguments of the innermost main_fetch / http_fetch
    recursive_flag,
    cors_preflight_flag,
    authentication_fetch_flag,
    response,       \* the Response the innermost call holds or returned
    body,           \* the body slot of the latest network response
    reader,         \* the body reader thread of the latest network response
    lastNet,        \* the latest exchange of http_network_fetch with the connector
    preflight,      \* the latest run of cors_preflight_fetch
    sent,           \* the methods http_fetch put on the wire since it was entered
    given,          \* the request as fetch_with_cors_cache was given it
    srv,            \* the server: its kind, the redirects it served
    fetches         \* fetches started with this cache

vars == << request, cache, now, pc, cors_flag, recursive_flag,
           cors_preflight_flag, authentication_fetch_flag, response, body,
           reader, lastNet, preflight, sent, given, srv, fetches >>

----------------------------------------------------------------------------
(* Bounds of the model *)

\* redirect responses whose Location the server chooses freely; after them a
\* server that goes on redirecting sends the URL it was asked for (a loop)
MaxHops == 2
\* the largest clock value
MaxTime == 1
\* fetches sharing one CORS cache
MaxFetches == 2

(* Program constants *)
RedirectLimit == 20

----------------------------------------------------------------------------
(* URLs, origins *)

UrlA == "http://a/"
UrlB == "http://b/"
UrlBC == "http://user:pw@b/"
UrlAbout == "about:blank"
UrlData == "data:text/plain,Hello"
HttpUrls == {UrlA, UrlB, UrlBC}
Urls == HttpUrls \cup {UrlAbout, UrlData}

OriginA == "http://a"
OriginB == "http://b"
OpaqueOrigin == "opaque"

Scheme(u) ==
    IF u \in HttpUrls THEN "http" ELSE IF u = UrlAbout THEN "about" ELSE "data"

\* Url::origin(): a tuple for http, a fresh opaque origin otherwise
UrlOriginOf(u) ==
    IF u = UrlA THEN OriginA ELSE IF u \in {UrlB, UrlBC} THEN OriginB ELSE OpaqueOrigin

\* an opaque origin equals no origin, itself included
OriginEq(o1, o2) == o1 # OpaqueOrigin /\ o2 # OpaqueOrigin /\ o1 = o2

AsciiSerialization(o) == IF o = OpaqueOrigin THEN "null" ELSE o

has_credentials(u) == u = UrlBC

\* Url::join of an absolute Location; "bad" is a Location that does not parse
LocNone == "none"
LocBad == "bad"
JoinOk(loc) == loc \in Urls
Last(s) == s[Len(s)]
current_url(req) == Last(req.url_list)

----------------------------------------------------------------------------
(* Headers: a function from the names present to their values *)

Has(h, n) == n \in DOMAIN h
SetHeader(h, n, v) == [x \in DOMAIN h \cup {n} |-> IF x = n THEN v ELSE h[x]]
NoHeaders == [x \in {} |-> ""]

\* UniCase: header names compare without case
Lower(n) ==
    CASE n = "X-Custom" -> "x-custom"
      [] n = "Content-Type" -> "content-type"
      [] n = "Accept" -> "accept"
      [] n = "Accept-Language" -> "accept-language"
      [] n = "Referer" -> "referer"
      [] n = "User-Agent" -> "user-agent"
      [] n = "Content-Length" -> "content-length"
      [] n = "Cache-Control" -> "cache-control"
      [] n = "Pragma" -> "pragma"
      [] n = "Authorization" -> "authorization"
      [] n = "X-CUSTOM" -> "x-custom"
      [] OTHER -> n

SimpleMimes == {"text/plain", "application/x-www-form-urlencoded", "multipart/form-data"}

is_simple_header(n, v) ==
    IF Lower(n) = "content-type"
    THEN v \in SimpleMimes
    ELSE Lower(n) \in {"accept", "accept-language", "content-language"}

is_simple_method(m) == m \in {"GET", "HEAD", "POST"}

is_null_body_status(s) == s \in {101, 204, 205, 304}

RedirectStatuses == {301, 302, 303, 307, 308}

----------------------------------------------------------------------------
(* Responses.  status 0 is None; internal says the response is a filter     *)
(* around an internal response, whose status, url and Location the fields   *)
(* keep (Response::actual_response).                                        *)

ResponseNew ==
    [response_type |-> "Default", status |-> 200, location |-> LocNone,
     url |-> "none", internal |-> FALSE, termination |-> "none"]

NetworkError ==
    [response_type |-> "Error", status |-> 0, location |-> LocNone,
     url |-> "none", internal |-> FALSE, termination |-> "none"]

NoResponse == [ResponseNew EXCEPT !.response_type = "None", !.status = 0]

to_filtered(r, t) == [r EXCEPT !.response_type = t, !.internal = TRUE]

is_network_error(r) == r.response_type = "Error"

NoNet ==
    [url |-> "none", method |-> "none", headers |-> NoHeaders, redirect_count |-> 0,
     ok |-> FALSE, status |-> 0, location |-> LocNone, cors |-> "none",
     redirect_mode |-> "none"]

\* max_age is the Access-Control-Max-Age the server sent, below 0 for none;
\* wire and answer are the OPTIONS request and what the server answered to it,
\* the answer kept until the next fetch starts;
\* of, at and fetch are the request, the instant and the fetch of the preflight
NoPreflight ==
    [run |-> FALSE, ok |-> FALSE, max_age |-> -1, methods |-> {}, headers |-> {},
     wire |-> << >>, answer |-> << >>,
     of |-> [origin |-> "none", url |-> "none", credentials_mode |-> "none",
             method |-> "none", headers |-> NoHeaders],
     at |-> 0, fetch |-> 0]

----------------------------------------------------------------------------
(* Requests *)

NewRequest(url, mode, credentials_mode, redirect_mode, method, hasBody, headers, use_cors_preflight, unsafe_request, synchronous, local_urls_only, same_origin_data, cache_mode) ==
    [url_list |-> << url >>, method |-> method, body |-> hasBody, headers |-> headers,
     origin |-> OriginA, mode |-> mode, credentials_mode |-> credentials_mode,
     cache_mode |-> cache_mode, redirect_mode |-> redirect_mode,
     response_tainting |-> "Basic", redirect_count |-> 0,
     use_cors_preflight |-> use_cors_preflight, unsafe_request |-> unsafe_request,
     synchronous |-> synchronous, local_urls_only |-> local_urls_only,
     same_origin_data |-> same_origin_data, skip_service_worker |-> FALSE]

same_origin(req) == OriginEq(req.origin, UrlOriginOf(current_url(req)))

----------------------------------------------------------------------------
(* fetch_with_cors_cache: steps 3 and 4 set the default Accept and           *)
(* Accept-Language, step 7 enters main_fetch.                               *)

\* variant: step 4 sets Accept-Language whatever the caller gave
DefaultHeadersOverwrite(h) ==
    SetHeader(IF Has(h, "Accept") THEN h ELSE SetHeader(h, "Accept", "*/*"),
              "Accept-Language", "en-US")

DefaultHeaders(h) ==
    LET h1 == IF Has(h, "Accept") THEN h ELSE SetHeader(h, "Accept", "*/*")
    IN  IF Has(h1, "Accept-Language") THEN h1
        ELSE SetHeader(h1, "Accept-Language", "en-US")

FetchWithCorsCache ==
    /\ pc = "fetch"
    /\ request' = [request EXCEPT !.headers = DefaultHeaders(request.headers)]
    /\ pc' = "main_fetch"
    /\ cors_flag' = FALSE
    /\ recursive_flag' = FALSE
    /\ UNCHANGED << cache, now, cors_preflight_flag, authentication_fetch_flag,
                    response, body, reader, lastNet, preflight, sent, given, srv, fetches >>

----------------------------------------------------------------------------
(* main_fetch, steps 1 to 9: the choice of the loader *)

LocalSchemes == {"about", "blob", "data", "filesystem"}

NeedsPreflight(req) ==
    \/ req.use_cors_preflight
    \/ /\ req.unsafe_request
       /\ \/ ~is_simple_method(req.method)
          \/ \E n \in DOMAIN req.headers : ~is_simple_header(n, req.headers[n])

\* variant: mode SameOrigin is not looked at
MainFetchBranchWithoutSameOrigin(req, cf) ==
    IF req.local_urls_only /\ Scheme(current_url(req)) \notin LocalSchemes
    THEN "local_urls_only_error"
    ELSE IF \/ same_origin(req) /\ ~cf
            \/ Scheme(current_url(req)) = "data" /\ req.same_origin_data
            \/ Scheme(current_url(req)) = "file" /\ req.same_origin_data
            \/ Scheme(current_url(req)) = "about"
            \/ req.mode = "Navigate"
    THEN "basic"
    ELSE IF req.mode \in {"NoCORS", "SameOrigin"} THEN "nocors_basic"
    ELSE IF Scheme(current_url(req)) \notin {"http", "https"} THEN "scheme_error"
    ELSE IF NeedsPreflight(req) THEN "cors_preflight"
    ELSE "cors"

MainFetchBranch(req, cf) ==
    IF req.local_urls_only /\ Scheme(current_url(req)) \notin LocalSchemes
    THEN "local_urls_only_error"
    ELSE IF \/ same_origin(req) /\ ~cf
            \/ Scheme(current_url(req)) = "data" /\ req.same_origin_data
            \/ Scheme(current_url(req)) = "file" /\ req.same_origin_data
            \/ Scheme(current_url(req)) = "about"
            \/ req.mode = "Navigate"
    THEN "basic"
    ELSE IF req.mode = "SameOrigin" THEN "same_origin_error"
    ELSE IF req.mode = "NoCORS" THEN "nocors_basic"
    ELSE IF Scheme(current_url(req)) \notin {"http", "https"} THEN "scheme_error"
    ELSE IF NeedsPreflight(req) THEN "cors_preflight"
    ELSE "cors"

\* variant: the basic branch sets the tainting back to Basic
MainFetchTaintResets(req, branch) ==
    IF branch = "nocors_basic"
    THEN [req EXCEPT !.response_tainting = "Opaque"]
    ELSE IF branch = "cors_preflight"
    THEN [req EXCEPT !.response_tainting = "CORSTainting", !.redirect_mode = "Error"]
    ELSE IF branch = "cors"
    THEN [req EXCEPT !.response_tainting = "CORSTainting"]
    ELSE IF branch = "basic"
    THEN [req EXCEPT !.response_tainting = "Basic"]
    ELSE req

\* variant: the preflight branch leaves the redirect mode of the caller
MainFetchTaintKeepsRedirectMode(req, branch) ==
    IF branch = "nocors_basic"
    THEN [req EXCEPT !.response_tainting = "Opaque"]
    ELSE IF branch \in {"cors_preflight", "cors"}
    THEN [req EXCEPT !.response_tainting = "CORSTainting"]
    ELSE req

\* the tainting and redirect mode main_fetch sets before it calls the loader
MainFetchTaint(req, branch) ==
    IF branch = "nocors_basic"
    THEN [req EXCEPT !.response_tainting = "Opaque"]
    ELSE IF branch = "cors_preflight"
    THEN [req EXCEPT !.response_tainting = "CORSTainting", !.redirect_mode = "Error"]
    ELSE IF branch = "cors"
    THEN [req EXCEPT !.response_tainting = "CORSTainting"]
    ELSE req

\* basic_fetch for the schemes that need no network
BasicFetchLocal(req) ==
    IF Scheme(current_url(req)) = "about"
    THEN ResponseNew
    ELSE IF Scheme(current_url(req)) = "data"
    THEN IF req.method = "GET" THEN ResponseNew ELSE NetworkError
    ELSE NetworkError

MainFetch ==
    /\ pc = "main_fetch"
    /\ LET branch == MainFetchBranch(request, cors_flag)
           req == MainFetchTaint(request, branch)
           viaBasic == branch \in {"basic", "nocors_basic"}
           http == Scheme(current_url(req)) \in {"http", "https"}
       IN  /\ request' = req
           /\ IF (viaBasic /\ http) \/ branch \in {"cors_preflight", "cors"}
              THEN /\ pc' = "http_fetch"
                   /\ cors_flag' = ~viaBasic
                   /\ cors_preflight_flag' = (branch = "cors_preflight")
                   /\ authentication_fetch_flag' = FALSE
                   /\ UNCHANGED << response, body, reader >>
              ELSE /\ pc' = "main_fetch_step10"
                   /\ response' = IF viaBasic THEN BasicFetchLocal(req) ELSE NetworkError
                   /\ body' = IF viaBasic /\ ~is_network_error(BasicFetchLocal(req))
                              THEN "Done" ELSE body
                   /\ reader' = IF viaBasic /\ ~is_network_error(BasicFetchLocal(req))
                                THEN "none" ELSE reader
                   /\ UNCHANGED << cors_flag, cors_preflight_flag,
                                   authentication_fetch_flag >>
    /\ UNCHANGED << cache, now, recursive_flag, lastNet, preflight, sent, given, srv, fetches >>

----------------------------------------------------------------------------
(* The CORS cache: entries (origin, destination, credentials) -> one method *)
(* or one header name, with the instant it expires.                         *)

CacheRequestDetails(req) ==
    [origin |-> req.origin, destination |-> current_url(req),
     credentials |-> (req.credentials_mode = "Include")]

EntryFor(e, details, kind, name) ==
    /\ e.origin = details.origin
    /\ e.destination = details.destination
    /\ e.credentials = details.credentials
    /\ e.kind = kind
    /\ e.name = name

Unexpired(e, t) == t < e.expiry

match_method(c, t, details, method) ==
    \E e \in c : EntryFor(e, details, "method", method) /\ Unexpired(e, t)

match_header(c, t, details, name) ==
    \E e \in c : EntryFor(e, details, "header", Lower(name)) /\ Unexpired(e, t)

CacheUpdate(c, t, details, kind, name, max_age) ==
    {e \in c : ~EntryFor(e, details, kind, name)} \cup
    {[origin |-> details.origin, destination |-> details.destination,
      credentials |-> details.credentials, kind |-> kind, name |-> name,
      expiry |-> t + max_age]}

RECURSIVE CacheUpdateAll(_, _, _, _, _, _)
CacheUpdateAll(c, t, details, kind, names, max_age) ==
    IF names = {} THEN c
    ELSE LET n == CHOOSE x \in names : TRUE
         IN  CacheUpdateAll(CacheUpdate(c, t, details, kind, n, max_age), t, details,
                            kind, names \ {n}, max_age)

match_method_and_update(c, t, details, methods, max_age) ==
    CacheUpdateAll(c, t, details, "method", methods, max_age)

match_header_and_update(c, t, details, names, max_age) ==
    CacheUpdateAll(c, t, details, "header", {Lower(n) : n \in names}, max_age)

----------------------------------------------------------------------------
(* cors_check *)

\* variant: step 3 lets the wildcard pass whatever the credentials mode
CorsCheckWildcardAlways(req, acao) ==
    IF acao = "absent" THEN FALSE
    ELSE IF acao = "*" THEN TRUE
    ELSE IF acao = "null" THEN FALSE
    ELSE IF ~(req.origin # "Client" /\ AsciiSerialization(req.origin) = acao) THEN FALSE
    ELSE IF req.credentials_mode # "Include" THEN TRUE
    ELSE Has(req.headers, "Access-Control-Allow-Credentials")

\* acao is the Access-Control-Allow-Origin of the response: "absent", "*" (Any),
\* "null" (Null) or an origin (Value)
cors_check(req, acao) ==
    IF acao = "absent" THEN FALSE
    ELSE IF req.credentials_mode # "Include" /\ acao = "*" THEN TRUE
    ELSE IF acao \in {"*", "null"} THEN FALSE
    ELSE IF ~(req.origin # "Client" /\ AsciiSerialization(req.origin) = acao) THEN FALSE
    ELSE IF req.credentials_mode # "Include" THEN TRUE
    ELSE Has(req.headers, "Access-Control-Allow-Credentials")

AcaoValues == {"absent", "*", "null", OriginA, OriginB}

----------------------------------------------------------------------------
(* http_fetch, steps 1 to 4 substep 1: whether a preflight is due *)

\* variant: the method cache is not consulted
MethodMismatchUncached(req, c, t) ==
    ~is_simple_method(req.method) \/ req.use_cors_preflight

method_mismatch(req, c, t) ==
    /\ ~match_method(c, t, CacheRequestDetails(req), req.method)
    /\ (~is_simple_method(req.method) \/ req.use_cors_preflight)

header_mismatch(req, c, t) ==
    \E n \in DOMAIN req.headers :
        /\ ~match_header(c, t, CacheRequestDetails(req), n)
        /\ ~is_simple_header(n, req.headers[n])

\* variant: the headers are not looked at
PreflightDueMethodOnly(req, c, t, flag) == flag /\ method_mismatch(req, c, t)

PreflightDue(req, c, t, flag) ==
    flag /\ (method_mismatch(req, c, t) \/ header_mismatch(req, c, t))

HttpFetch ==
    /\ pc = "http_fetch"
    /\ pc' = IF PreflightDue(request, cache, now, cors_preflight_flag)
             THEN "cors_preflight_fetch" ELSE "http_fetch_substep2"
    /\ sent' = << >>
    /\ UNCHANGED << request, cache, now, cors_flag, recursive_flag,
                    cors_preflight_flag, authentication_fetch_flag, response, body,
                    reader, lastNet, preflight, given, srv, fetches >>

----------------------------------------------------------------------------
(* cors_preflight_fetch *)

NonSimpleHeaders(req) ==
    {n \in DOMAIN req.headers : ~is_simple_header(n, req.headers[n])}

\* steps 1 to 5: the OPTIONS request.  Its headers are the two the function sets:
\* http_network_fetch submits the headers of the request it is given, not those
\* of the clone http_network_or_cache_fetch adds Referer and User-Agent to.
\* acrh is the value of Access-Control-Request-Headers.
PreflightRequest(req) ==
    [url |-> current_url(req), method |-> "OPTIONS",
     headers |-> [n \in {"Access-Control-Request-Method",
                         "Access-Control-Request-Headers"} |->
                    IF n = "Access-Control-Request-Method" THEN req.method
                    ELSE "names"],
     acrh |-> {Lower(h) : h \in NonSimpleHeaders(req)}]

\* what a server may answer to the OPTIONS request.  A list header is absent,
\* "bad" (present, does not parse) or a list; a max-age below 0 is an absent one.
Absent == [h |-> "absent", v |-> {}]
Bad == [h |-> "bad", v |-> {}]
List(v) == [h |-> "list", v |-> v]
PreflightAnswer(ok, status, acao, allowMethods, allowHeaders, maxAge) ==
    [ok |-> ok, status |-> status, acao |-> acao, allowMethods |-> allowMethods,
     allowHeaders |-> allowHeaders, maxAge |-> maxAge]

\* a server that refuses, or allows what the preflight asks for
PlainPreflightAnswers(req) ==
    {PreflightAnswer(TRUE, 403, "absent", Absent, Absent, -1)} \cup
    {PreflightAnswer(TRUE, 200, acao, List({req.method}),
                     List({Lower(h) : h \in NonSimpleHeaders(req)}), 2) :
        acao \in {"*", OriginA}}

\* a server that answers in any way: the connector fails, the status is no
\* success, the origin is not allowed, a list does not parse, or the lists and
\* the max-age are any of a few
AnyPreflightAnswers(req) ==
    {PreflightAnswer(FALSE, 200, "absent", Absent, Absent, -1),
     PreflightAnswer(TRUE, 403, "*", Absent, Absent, -1),
     PreflightAnswer(TRUE, 204, OriginB, Absent, Absent, -1),
     PreflightAnswer(TRUE, 204, OriginA, Bad, Absent, 1),
     PreflightAnswer(TRUE, 204, OriginA, Absent, Bad, 1)} \cup
    {PreflightAnswer(TRUE, 204, "*", allowMethods, allowHeaders, maxAge) :
        allowMethods \in {Absent, List({"PUT"}), List({"POST", "PUT"})},
        allowHeaders \in {Absent, List({"X-CUSTOM"}),
                          List({Lower(h) : h \in NonSimpleHeaders(req)})},
        maxAge \in {-1, 0, 1}}

PreflightAnswers(req) ==
    IF srv.kind = "preflight" THEN AnyPreflightAnswers(req)
    ELSE PlainPreflightAnswers(req)

ListOf(x) == x.v

\* step 7, substeps 4 to 6: the methods after the implicit one is added, and
\* whether the method and the headers of the request are allowed
PreflightMethods(req, allowMethods) ==
    IF ListOf(allowMethods) = {} /\ req.use_cors_preflight
    THEN {req.method} ELSE ListOf(allowMethods)

PreflightMethodAllowed(req, methods) ==
    ~(req.method \notin methods /\ ~is_simple_method(req.method))

\* variant: the header names are compared with case
PreflightHeadersAllowedWithCase(req, headerNames) ==
    ~\E n \in DOMAIN req.headers :
        /\ n \notin headerNames
        /\ ~is_simple_header(n, req.headers[n])

PreflightHeadersAllowed(req, headerNames) ==
    ~\E n \in DOMAIN req.headers :
        /\ Lower(n) \notin {Lower(h) : h \in headerNames}
        /\ ~is_simple_header(n, req.headers[n])

\* variant: the status of the preflight response is not looked at
PreflightAcceptedAnyStatus(req, ok, status, acao, allowMethods, allowHeaders) ==
    /\ ok
    /\ cors_check(req, acao)
    /\ allowMethods.h # "bad"
    /\ allowHeaders.h # "bad"
    /\ PreflightMethodAllowed(req, PreflightMethods(req, allowMethods))
    /\ PreflightHeadersAllowed(req, ListOf(allowHeaders))

\* step 7: whether the preflight response is accepted
PreflightAccepted(req, ok, status, acao, allowMethods, allowHeaders) ==
    /\ ok
    /\ cors_check(req, acao)
    /\ status \in 200..299
    /\ allowMethods.h # "bad"
    /\ allowHeaders.h # "bad"
    /\ PreflightMethodAllowed(req, PreflightMethods(req, allowMethods))
    /\ PreflightHeadersAllowed(req, ListOf(allowHeaders))

\* variant: a missing Access-Control-Max-Age counts as one second
PreflightMaxAgeDefaultOne(maxAge) == IF maxAge < 0 THEN 1 ELSE maxAge

PreflightMaxAge(maxAge) == IF maxAge < 0 THEN 0 ELSE maxAge

PreflightCache(req, c, t, allowMethods, allowHeaders, maxAge) ==
    match_header_and_update(
        match_method_and_update(c, t, CacheRequestDetails(req),
                                PreflightMethods(req, allowMethods),
                                PreflightMaxAge(maxAge)),
        t, CacheRequestDetails(req), ListOf(allowHeaders), PreflightMaxAge(maxAge))

CorsPreflightFetch ==
    /\ pc = "cors_preflight_fetch"
    /\ \E a \in PreflightAnswers(request) :
        LET accepted == PreflightAccepted(request, a.ok, a.status, a.acao,
                                          a.allowMethods, a.allowHeaders)
        IN  /\ cache' = IF accepted
                        THEN PreflightCache(request, cache, now, a.allowMethods,
                                            a.allowHeaders, a.maxAge)
                        ELSE cache
            /\ preflight' =
                 [run |-> TRUE, ok |-> accepted, max_age |-> a.maxAge,
                  methods |-> IF accepted
                              THEN PreflightMethods(request, a.allowMethods) ELSE {},
                  headers |-> IF accepted
                              THEN {Lower(h) : h \in ListOf(a.allowHeaders)} ELSE {},
                  wire |-> << PreflightRequest(request) >>, answer |-> << a >>,
                  of |-> [origin |-> request.origin, url |-> current_url(request),
                          credentials_mode |-> request.credentials_mode,
                          method |-> request.method, headers |-> request.headers],
                  at |-> now, fetch |-> fetches]
            /\ sent' = Append(sent, "OPTIONS")
            /\ pc' = IF accepted THEN "http_fetch_substep2" ELSE "main_fetch_step10"
            /\ response' = IF accepted THEN response ELSE NetworkError
    /\ UNCHANGED << request, now, cors_flag, recursive_flag, cors_preflight_flag,
                    authentication_fetch_flag, body, reader, lastNet, given, srv, fetches >>

----------------------------------------------------------------------------
(* http_network_or_cache_fetch: the headers it sets on http_request *)

ContentLengthValue(req) ==
    IF ~req.body
    THEN IF req.method \in {"HEAD", "POST", "PUT"} THEN "0" ELSE "none"
    ELSE "len"

is_no_store_cache(h) ==
    \E n \in {"If-Modified-Since", "If-None-Match", "If-Unmodified-Since",
              "If-Match", "If-Range"} : Has(h, n)

SetIfAbsent(h, n, v) == IF Has(h, n) THEN h ELSE SetHeader(h, n, v)

CacheModeHeaders(h, cache_mode) ==
    IF cache_mode = "NoCache" THEN SetIfAbsent(h, "Cache-Control", "max-age=0")
    ELSE IF cache_mode = "Reload"
    THEN SetIfAbsent(SetIfAbsent(h, "Pragma", "no-cache"), "Cache-Control", "no-cache")
    ELSE h

AuthorizationHeader(h, req, credentials_flag, auth_flag) ==
    IF credentials_flag /\ ~Has(h, "Authorization") /\ auth_flag
       /\ has_credentials(current_url(req))
    THEN SetHeader(h, "Authorization", "Basic")
    ELSE h

\* steps 2 to 13 applied to http_request
HttpRequest(req, credentials_flag, auth_flag) ==
    LET h1 == IF ContentLengthValue(req) = "none" THEN req.headers
              ELSE SetHeader(req.headers, "Content-Length", ContentLengthValue(req))
        h2 == SetHeader(h1, "Referer", "")
        h3 == SetIfAbsent(h2, "User-Agent", "Servo")
        h4 == CacheModeHeaders(h3, req.cache_mode)
        h5 == AuthorizationHeader(h4, req, credentials_flag, auth_flag)
    IN  [req EXCEPT !.headers = h5,
                    !.cache_mode = IF req.cache_mode = "Default" /\ is_no_store_cache(h3)
                                   THEN "NoStore" ELSE req.cache_mode]

\* variant: http_request is the request itself whatever the redirect mode
RequestAfterHttpRequestShared(req, credentials_flag, auth_flag) ==
    HttpRequest(req, credentials_flag, auth_flag)

\* step 1: http_request is the request itself unless redirect_mode is Follow, so
\* the request after the call carries the headers only in that case
RequestAfterHttpRequest(req, credentials_flag, auth_flag) ==
    IF req.redirect_mode # "Follow"
    THEN HttpRequest(req, credentials_flag, auth_flag)
    ELSE req

\* http_network_fetch, step 4: what obtain_response is given, read from request
WireRequest(req) ==
    [url |-> current_url(req), method |-> req.method, headers |-> req.headers,
     redirect_count |-> req.redirect_count]

----------------------------------------------------------------------------
(* http_fetch, step 4 substeps 2 to 5 and step 5 *)

CredentialsFlag(req) ==
    \/ req.credentials_mode = "Include"
    \/ req.credentials_mode = "CredentialsSameOrigin" /\ req.response_tainting = "Basic"

\* variant: a Manual redirect is followed
StatusDispatchManualFollows(req, status, cf) ==
    IF status \in RedirectStatuses
    THEN IF req.redirect_mode = "Error" THEN "redirect_error" ELSE "redirect_follow"
    ELSE IF status = 401
    THEN IF cf \/ req.credentials_mode # "Include" THEN "return" ELSE "auth_retry"
    ELSE IF status = 407 THEN "proxy_retry"
    ELSE "return"

\* step 5: what http_fetch does with the status of the response
StatusDispatch(req, status, cf) ==
    IF status \in RedirectStatuses
    THEN IF req.redirect_mode = "Error" THEN "redirect_error"
         ELSE IF req.redirect_mode = "Manual" THEN "redirect_manual"
         ELSE "redirect_follow"
    ELSE IF status = 401
    THEN IF cf \/ req.credentials_mode # "Include" THEN "return" ELSE "auth_retry"
    ELSE IF status = 407 THEN "proxy_retry"
    ELSE "return"

\* variant: the CORS check is skipped for a redirect status
HttpFetchDispatchRedirectFirst(req, status, acao, cf) ==
    IF cf /\ ~cors_check(req, acao) /\ status \notin RedirectStatuses THEN "cors_error"
    ELSE StatusDispatch(req, status, cf)

\* substep 5 before step 5
HttpFetchDispatch(req, status, acao, cf) ==
    IF cf /\ ~cors_check(req, acao) THEN "cors_error"
    ELSE StatusDispatch(req, status, cf)

\* http_redirect_fetch: its steps as operators

\* variant: the limit test is off by one
RedirectLimitOffByOne(req) == req.redirect_count > RedirectLimit

RedirectLimitReached(req) == req.redirect_count >= RedirectLimit

\* variant: 303 rewrites the method of a POST only
RewritesMethodPostOnly(status, method) ==
    (status = 301 \/ status = 302 \/ status = 303) /\ method = "POST"

RewritesMethod(status, method) ==
    ((status = 301 \/ status = 302) /\ method = "POST") \/ status = 303

\* variant: the credentials of the Location are not looked at
RedirectCredentialsIgnored(req, location_url, cf) == FALSE

\* steps 10 and 11
RedirectCredentialsError(req, location_url, cf) ==
    \/ req.mode = "CORSMode" /\ ~same_origin(req) /\ has_credentials(location_url)
    \/ cf /\ has_credentials(location_url)

\* variant: the Location is not pushed on the URL list
RedirectRequestNoPush(req, status, location_url, cf) ==
    LET r1 == [req EXCEPT !.redirect_count = @ + 1, !.same_origin_data = FALSE]
        r2 == IF cf /\ ~same_origin(req) THEN [r1 EXCEPT !.origin = OpaqueOrigin] ELSE r1
    IN  IF ((status = 301 \/ status = 302) /\ req.method = "POST") \/ status = 303
        THEN [r2 EXCEPT !.method = "GET", !.body = FALSE] ELSE r2

\* variant: the Location takes the place of the last URL of the list
RedirectRequestReplacesUrl(req, status, location_url, cf) ==
    LET r1 == [req EXCEPT !.redirect_count = @ + 1, !.same_origin_data = FALSE]
        r2 == IF cf /\ ~same_origin(req) THEN [r1 EXCEPT !.origin = OpaqueOrigin] ELSE r1
        r3 == IF ((status = 301 \/ status = 302) /\ req.method = "POST") \/ status = 303
              THEN [r2 EXCEPT !.method = "GET", !.body = FALSE] ELSE r2
    IN  [r3 EXCEPT !.url_list = [@ EXCEPT ![Len(@)] = location_url]]

\* steps 8 to 14 on the request, for a redirect that is followed
\* variant: step 8 is left out, the URL is pushed without counting the redirect
RedirectRequestUncounted(req, status, location_url, cf) ==
    LET r1 == [req EXCEPT !.same_origin_data = FALSE]
        r2 == IF cf /\ ~same_origin(req) THEN [r1 EXCEPT !.origin = OpaqueOrigin] ELSE r1
        r3 == IF RewritesMethod(status, req.method)
              THEN [r2 EXCEPT !.method = "GET", !.body = FALSE] ELSE r2
    IN  [r3 EXCEPT !.url_list = Append(@, location_url)]

RedirectRequest(req, status, location_url, cf) ==
    LET r1 == [req EXCEPT !.redirect_count = @ + 1, !.same_origin_data = FALSE]
        r2 == IF cf /\ ~same_origin(req) THEN [r1 EXCEPT !.origin = OpaqueOrigin] ELSE r1
        r3 == IF RewritesMethod(status, req.method)
              THEN [r2 EXCEPT !.method = "GET", !.body = FALSE] ELSE r2
    IN  [r3 EXCEPT !.url_list = Append(@, location_url)]

RedirectOutcome(req, resp, cf) ==
    IF resp.location = LocNone THEN "return"
    ELSE IF ~JoinOk(resp.location) THEN "error"
    ELSE IF RedirectLimitReached(req) THEN "error"
    ELSE IF RedirectCredentialsError(req, resp.location, cf) THEN "credentials_error"
    ELSE "follow"

\* Whether the response of an exchange can be the one fetch returns.  The body
\* slot of a response that http_fetch or http_redirect_fetch drops is read by
\* nobody, and its reader thread is left out.
Surfaces(req, res, outcome, cf) ==
    \/ outcome \in {"return", "redirect_manual"}
    \/ outcome = "redirect_follow" /\ RedirectOutcome(req, res, cf) = "return"

Statuses == {200, 204, 401, 407} \cup RedirectStatuses

\* The server is of one of three kinds.  All answer the first MaxHops redirects,
\* and everything before them, as they like.  After them, a server that "stops"
\* redirects no more, and one that "loops" answers every request with a redirect
\* to the URL it was asked for.  A "preflight" server answers a preflight in any
\* way and the request after it with 200 or 407; the other two refuse a
\* preflight or allow what it asks for.
ServerFree == srv.kind # "preflight" /\ srv.served < MaxHops

ConnectorChoices == IF ServerFree \/ srv.kind = "stops" THEN BOOLEAN ELSE {TRUE}

StatusChoices ==
    IF ServerFree THEN Statuses
    ELSE IF srv.kind = "loops" THEN RedirectStatuses
    ELSE IF srv.kind = "stops" THEN Statuses \ RedirectStatuses
    ELSE {200, 407}

AcaoChoices(cf) ==
    IF ~cf THEN {"absent"}
    ELSE IF srv.kind = "preflight" THEN {"absent", "*"}
    ELSE AcaoValues

LocationChoices(url) == IF ServerFree THEN {LocNone, LocBad} \cup Urls ELSE {url}

HttpFetchNetwork ==
    /\ pc = "http_fetch_substep2"
    /\ \E ok \in ConnectorChoices, status \in StatusChoices,
          acao \in AcaoChoices(cors_flag) :
       \E location \in IF ok /\ status \in RedirectStatuses
                       THEN LocationChoices(current_url(request)) ELSE {LocNone} :
        LET credentials == CredentialsFlag(request)
            req == [RequestAfterHttpRequest(request, credentials,
                                            authentication_fetch_flag)
                      EXCEPT !.skip_service_worker = TRUE]
            res == IF ok
                   THEN [ResponseNew EXCEPT !.status = status, !.location = location,
                                            !.url = current_url(req)]
                   ELSE [ResponseNew EXCEPT !.termination = "Fatal"]
            outcome == HttpFetchDispatch(req, res.status, IF ok THEN acao ELSE "absent",
                                         cors_flag)
        IN  /\ ~ok => status = 200 /\ acao = "absent"
            /\ request' = req
            /\ srv' = IF ok /\ status \in RedirectStatuses /\ ServerFree
                      THEN [srv EXCEPT !.served = @ + 1] ELSE srv
            /\ body' = "Empty"
            /\ reader' = IF ok /\ Surfaces(req, res, outcome, cors_flag)
                         THEN "spawned" ELSE "none"
            /\ sent' = Append(sent, WireRequest(req).method)
            /\ lastNet' = WireRequest(req) @@
                          [ok |-> ok, status |-> IF ok THEN status ELSE 0,
                           location |-> location,
                           cors |-> IF ~cors_flag THEN "none"
                                    ELSE IF cors_check(req, IF ok THEN acao ELSE "absent")
                                    THEN "pass" ELSE "fail",
                           redirect_mode |-> req.redirect_mode]
            /\ response' = IF outcome \in {"cors_error", "redirect_error"}
                           THEN NetworkError
                           ELSE IF outcome = "redirect_manual"
                           THEN to_filtered(res, "OpaqueRedirect")
                           ELSE res
            /\ pc' = IF outcome = "redirect_follow" THEN "http_redirect_fetch"
                     ELSE IF outcome \in {"auth_retry", "proxy_retry"} THEN "http_fetch"
                     ELSE "main_fetch_step10"
            /\ authentication_fetch_flag' =
                   IF outcome = "auth_retry" THEN TRUE ELSE authentication_fetch_flag
    /\ UNCHANGED << cache, now, cors_flag, recursive_flag, cors_preflight_flag,
                    preflight, given, fetches >>

----------------------------------------------------------------------------
(* http_redirect_fetch, the action *)

HttpRedirectFetch ==
    /\ pc = "http_redirect_fetch"
    /\ LET outcome == RedirectOutcome(request, response, cors_flag)
       IN  /\ request' =
                 IF outcome = "follow"
                 THEN RedirectRequest(request, response.status, response.location,
                                      cors_flag)
                 ELSE IF outcome = "credentials_error"
                 THEN [request EXCEPT !.redirect_count = @ + 1,
                                      !.same_origin_data = FALSE]
                 ELSE request
           /\ response' = IF outcome = "follow" THEN NoResponse
                          ELSE IF outcome = "return" THEN response
                          ELSE NetworkError
           /\ pc' = IF outcome = "follow" THEN "main_fetch" ELSE "main_fetch_step10"
           /\ recursive_flag' = IF outcome = "follow" THEN TRUE ELSE recursive_flag
    /\ UNCHANGED << cache, now, cors_flag, cors_preflight_flag,
                    authentication_fetch_flag, body, reader, lastNet, preflight, sent, given, srv, fetches >>

----------------------------------------------------------------------------
(* main_fetch, steps 10 to 20 *)

\* step 10 of a main_fetch entered by http_redirect_fetch: the response goes back
\* through http_redirect_fetch, http_fetch and basic_fetch, which return it as it
\* is, to the main_fetch that fetch_with_cors_cache called (cors_flag false)
MainFetchReturn ==
    /\ pc = "main_fetch_step10"
    /\ recursive_flag
    /\ recursive_flag' = FALSE
    /\ cors_flag' = FALSE
    /\ UNCHANGED << request, cache, now, pc, cors_preflight_flag,
                    authentication_fetch_flag, response, body, reader, lastNet,
                    preflight, sent, given, srv, fetches >>

\* variant: an opaque tainting is filtered like a CORS one
FilteredTypeNoOpaque(tainting) == IF tainting = "Basic" THEN "Basic" ELSE "CORS"

FilteredType(tainting) ==
    IF tainting = "Basic" THEN "Basic"
    ELSE IF tainting = "CORSTainting" THEN "CORS"
    ELSE "Opaque"

\* variant: a response is not wrapped when the tainting is Basic
FilteredUnlessBasic(req, resp) ==
    IF resp.response_type = "Default" /\ req.response_tainting # "Basic"
    THEN to_filtered(resp, FilteredType(req.response_tainting))
    ELSE resp

\* step 11
Filtered(req, resp) ==
    IF resp.response_type = "Default"
    THEN to_filtered(resp, FilteredType(req.response_tainting))
    ELSE resp

\* step 14: whether the internal body is set to Empty
NullsBody(req, resp) ==
    /\ ~is_network_error(resp)
    /\ (is_null_body_status(resp.status) \/ req.method \in {"HEAD", "CONNECT"})

MainFetchFilter ==
    /\ pc = "main_fetch_step10"
    /\ ~recursive_flag
    /\ response' = Filtered(request, response)
    /\ body' = IF NullsBody(request, Filtered(request, response)) THEN "Empty" ELSE body
    /\ pc' = "main_fetch_wait"
    /\ UNCHANGED << request, cache, now, cors_flag, recursive_flag,
                    cors_preflight_flag, authentication_fetch_flag, reader, lastNet,
                    preflight, sent, given, srv, fetches >>

\* Response::wait_until_done: returns once the body is Done, at once for a
\* network error; locking the mutex of a reader that panicked panics
WaitOver(resp, b, rd) == is_network_error(resp) \/ b = "Done" \/ rd = "panicked"

\* steps 16 and 19
MainFetchWait ==
    /\ pc = "main_fetch_wait"
    /\ WaitOver(response, body, reader)
    /\ pc' = IF ~is_network_error(response) /\ reader = "panicked"
             THEN "panicked" ELSE "done"
    /\ UNCHANGED << request, cache, now, cors_flag, recursive_flag,
                    cors_preflight_flag, authentication_fetch_flag, response, body,
                    reader, lastNet, preflight, sent, given, srv, fetches >>

----------------------------------------------------------------------------
(* the body reader thread of http_network_fetch *)

ReaderReceiving ==
    /\ reader = "spawned"
    /\ body' = "Receiving"
    /\ reader' = "receiving"
    /\ UNCHANGED << request, cache, now, pc, cors_flag, recursive_flag,
                    cors_preflight_flag, authentication_fetch_flag, response,
                    lastNet, preflight, sent, given, srv, fetches >>

\* the assertion fails, and the thread panics, when the body is Empty
ReaderDone ==
    /\ reader = "receiving"
    /\ body' = IF body = "Empty" THEN body ELSE "Done"
    /\ reader' = IF body = "Empty" THEN "panicked" ELSE "done"
    /\ UNCHANGED << request, cache, now, pc, cors_flag, recursive_flag,
                    cors_preflight_flag, authentication_fetch_flag, response,
                    lastNet, preflight, sent, given, srv, fetches >>

----------------------------------------------------------------------------
(* The callers: the requests fetch is given *)

Modes == {"SameOrigin", "CORSMode", "NoCORS", "Navigate"}
CredentialsModes == {"Omit", "CredentialsSameOrigin", "Include"}
RedirectModes == {"Follow", "Error", "Manual"}
MethodsAndBodies ==
    {<< "GET", FALSE >>, << "POST", TRUE >>, << "HEAD", FALSE >>, << "PUT", TRUE >>}
CallerHeaders == {NoHeaders, [n \in {"X-Custom"} |-> "1"]}

\* The requests of one fetch.  Three families, each the product of the fields
\* its part of the algorithm reads, the other fields at their defaults:
\* the choice of the loader, CORS with and without preflight, credentials.
LoaderRequests ==
    {NewRequest(u, m, "Omit", r, mb[1], mb[2], NoHeaders, FALSE, FALSE, FALSE, FALSE,
                FALSE, "Default") :
        u \in {UrlA, UrlB, UrlAbout, UrlData}, m \in Modes, r \in RedirectModes,
        mb \in MethodsAndBodies}

CorsRequests ==
    {NewRequest(UrlB, "CORSMode", c, r, mb[1], mb[2], h, p, us, FALSE, FALSE, FALSE,
                "Default") :
        c \in CredentialsModes, r \in RedirectModes, mb \in MethodsAndBodies,
        h \in CallerHeaders, p \in BOOLEAN, us \in BOOLEAN}

CredentialsRequests ==
    {NewRequest(u, m, c, "Follow", "GET", FALSE, NoHeaders, FALSE, FALSE, FALSE,
                FALSE, FALSE, "Default") :
        u \in {UrlA, UrlB}, m \in Modes, c \in CredentialsModes}

\* the headers http_network_or_cache_fetch and fetch_with_cors_cache set when
\* the caller did not: the caller gave none of them, or one
HeaderChoices ==
    {NoHeaders, [n \in {"Accept-Language"} |-> "fr"],
     [n \in {"Cache-Control"} |-> "no-store"],
     [n \in {"Cache-Control"} |-> "max-age=0"], [n \in {"Pragma"} |-> "x"],
     [n \in {"If-None-Match"} |-> "*"]}

CacheModes == {"Default", "NoCache", "Reload"}

HeaderRequests ==
    {NewRequest(UrlA, "Navigate", "Omit", r, "GET", FALSE, h, FALSE, FALSE, FALSE,
                FALSE, FALSE, cm) :
        r \in RedirectModes, h \in HeaderChoices, cm \in CacheModes}

\* data: URLs the caller declares same-origin
DataRequests ==
    {NewRequest(UrlData, m, "Omit", "Follow", mth, FALSE, NoHeaders, FALSE, FALSE,
                FALSE, FALSE, TRUE, "Default") :
        m \in Modes, mth \in {"GET", "POST"}}

Requests ==
    LoaderRequests \cup CorsRequests \cup CredentialsRequests \cup HeaderRequests
        \cup DataRequests

ChainRequests ==
    {NewRequest(u, m, c, "Follow", mb[1], mb[2], NoHeaders, p, FALSE, FALSE,
                FALSE, FALSE, "Default") :
        u \in {UrlA, UrlB}, m \in Modes, c \in {"Omit", "Include"},
        mb \in MethodsAndBodies, p \in BOOLEAN}

InitWith(requests, kind) ==
    /\ request \in requests
    /\ cache = {}
    /\ now = 0
    /\ pc = "fetch"
    /\ cors_flag = FALSE
    /\ recursive_flag = FALSE
    /\ cors_preflight_flag = FALSE
    /\ authentication_fetch_flag = FALSE
    /\ response = NoResponse
    /\ body = "Empty"
    /\ reader = "none"
    /\ lastNet = NoNet
    /\ preflight = NoPreflight
    /\ sent = << >>
    /\ given = request
    /\ srv = [served |-> 0, kind |-> kind]
    /\ fetches = 1

\* one fetch, the server redirecting at most MaxHops times
Init == InitWith(Requests, "stops")

\* one fetch, the server redirecting for as long as it is asked after MaxHops answers
InitChain == InitWith(ChainRequests, "loops")

Next ==
    \/ FetchWithCorsCache
    \/ MainFetch
    \/ HttpFetch
    \/ CorsPreflightFetch
    \/ HttpFetchNetwork
    \/ HttpRedirectFetch
    \/ MainFetchReturn
    \/ MainFetchFilter
    \/ MainFetchWait
    \/ ReaderReceiving
    \/ ReaderDone

Spec == Init /\ [][Next]_vars

SpecChain == InitChain /\ [][Next]_vars

----------------------------------------------------------------------------
(* Several fetches with one CORS cache (fetch_with_cors_cache), and the clock *)

\* requests main_fetch sends down the preflight branch
CacheRequests ==
    {r \in {NewRequest(u, "CORSMode", c, "Follow", mb[1], mb[2], h, p, TRUE, FALSE,
                       FALSE, FALSE, "Default") :
               u \in {UrlB}, c \in {"Omit"},
               mb \in {<< "POST", TRUE >>, << "PUT", TRUE >>},
               h \in CallerHeaders, p \in BOOLEAN} :
        NeedsPreflight(r)}

NextFetch ==
    /\ pc \in {"done", "panicked"}
    /\ fetches < MaxFetches
    /\ fetches' = fetches + 1
    /\ request' \in CacheRequests
    /\ pc' = "fetch"
    /\ cors_flag' = FALSE
    /\ recursive_flag' = FALSE
    /\ cors_preflight_flag' = FALSE
    /\ authentication_fetch_flag' = FALSE
    /\ response' = NoResponse
    /\ body' = "Empty"
    /\ reader' = "none"
    /\ lastNet' = NoNet
    /\ sent' = << >>
    /\ given' = request'
    /\ preflight' = [preflight EXCEPT !.answer = << >>]
    /\ UNCHANGED << cache, now, srv >>

\* The clock is read by http_fetch (match_method, match_header) and by
\* cors_preflight_fetch (the entries it writes): time passes before either, and
\* between fetches.
Tick ==
    /\ pc \in {"done", "panicked", "http_fetch", "cors_preflight_fetch"}
    /\ now < MaxTime
    /\ now' = now + 1
    /\ UNCHANGED << request, cache, pc, cors_flag, recursive_flag,
                    cors_preflight_flag, authentication_fetch_flag, response, body,
                    reader, lastNet, preflight, sent, given, srv, fetches >>

InitCache == InitWith(CacheRequests, "preflight")

NextCache ==
    \/ FetchWithCorsCache
    \/ MainFetch
    \/ HttpFetch
    \/ CorsPreflightFetch
    \/ HttpFetchNetwork
    \/ MainFetchFilter
    \/ MainFetchWait
    \/ ReaderReceiving
    \/ ReaderDone
    \/ NextFetch
    \/ Tick

SpecCache == InitCache /\ [][NextCache]_vars

----------------------------------------------------------------------------
(* fetch_async: the thread it spawns calls fetch, waits for the response and   *)
(* hands it to the listener                                                  *)

ResponseAvailable ==
    /\ pc = "done"
    /\ WaitOver(response, body, reader)
    /\ pc' = IF ~is_network_error(response) /\ reader = "panicked"
             THEN "panicked" ELSE "response_available"
    /\ UNCHANGED << request, cache, now, cors_flag, recursive_flag,
                    cors_preflight_flag, authentication_fetch_flag, response, body,
                    reader, lastNet, preflight, sent, given, srv, fetches >>

AsyncRequests ==
    {NewRequest(u, "CORSMode", "Omit", "Follow", m, FALSE, NoHeaders, p, FALSE, FALSE,
                FALSE, FALSE, "Default") :
        u \in {UrlA, UrlB, UrlAbout}, m \in {"GET", "HEAD"}, p \in BOOLEAN}

InitAsync == InitWith(AsyncRequests, "stops")

NextAsync ==
    \/ FetchWithCorsCache
    \/ MainFetch
    \/ HttpFetch
    \/ CorsPreflightFetch
    \/ HttpFetchNetwork
    \/ HttpRedirectFetch
    \/ MainFetchReturn
    \/ MainFetchFilter
    \/ MainFetchWait
    \/ ResponseAvailable
    \/ ReaderReceiving
    \/ ReaderDone

\* the steps of the thread fetch_async spawns, and those of the body reader
FetchThread ==
    \/ FetchWithCorsCache
    \/ MainFetch
    \/ HttpFetch
    \/ CorsPreflightFetch
    \/ HttpFetchNetwork
    \/ HttpRedirectFetch
    \/ MainFetchReturn
    \/ MainFetchFilter
    \/ MainFetchWait
    \/ ResponseAvailable

ReaderThread == ReaderReceiving \/ ReaderDone

\* both are threads of the operating system: a thread that can take a step
\* takes it in the end
SpecAsync ==
    InitAsync /\ [][NextAsync]_vars /\ WF_vars(FetchThread) /\ WF_vars(ReaderThread)

----------------------------------------------------------------------------
(* cors_check on its own: a request and a response, of which the response   *)
(* is the record of the two headers the CORS check is about                 *)

\* the origins of the match of step 4: a tuple, an opaque origin (the request
\* followed a cross-origin redirect) and Client, which has an arm of its own
CorsCheckOrigins == {OriginA, OpaqueOrigin, "Client"}

CorsCheckRequests ==
    {[NewRequest(UrlB, "CORSMode", c, "Follow", "GET", FALSE, h, FALSE, FALSE, FALSE,
                 FALSE, FALSE, "Default") EXCEPT !.origin = o] :
        c \in CredentialsModes, o \in CorsCheckOrigins,
        h \in {NoHeaders, [n \in {"Access-Control-Allow-Credentials"} |-> "true"]}}

CorsCheckResponses == {[acao |-> a, acac |-> c] : a \in AcaoValues, c \in BOOLEAN}

InitCorsCheck ==
    /\ request \in CorsCheckRequests
    /\ response \in CorsCheckResponses
    /\ pc = "cors_check"
    /\ cache = {}
    /\ now = 0
    /\ cors_flag = TRUE
    /\ recursive_flag = FALSE
    /\ cors_preflight_flag = FALSE
    /\ authentication_fetch_flag = FALSE
    /\ body = "Empty"
    /\ reader = "none"
    /\ lastNet = NoNet
    /\ preflight = NoPreflight
    /\ sent = << >>
    /\ given = request
    /\ srv = [served |-> 0, kind |-> "stops"]
    /\ fetches = 1

CorsCheck ==
    /\ pc = "cors_check"
    /\ pc' = "cors_check_done"
    /\ lastNet' = [lastNet EXCEPT
                      !.cors = IF cors_check(request, response.acao)
                               THEN "pass" ELSE "fail"]
    /\ UNCHANGED << request, cache, now, cors_flag, recursive_flag,
                    cors_preflight_flag, authentication_fetch_flag, response, body,
                    reader, preflight, sent, given, srv, fetches >>

NextCorsCheck == CorsCheck

SpecCorsCheck == InitCorsCheck /\ [][NextCorsCheck]_vars

----------------------------------------------------------------------------
(* Properties *)

\* the fetch thread is past http_fetch: main_fetch holds the response it returns
Returned == {"main_fetch_step10", "main_fetch_wait", "done"}

\* the latest exchange ended in a redirect response with a Location that parses
LastNetRedirect ==
    lastNet.ok /\ lastNet.status \in {301, 302, 303, 307, 308} /\ JoinOk(lastNet.location)

\* a request with the origin, URL, credentials mode, method and headers of the
\* request a preflight was made for
SameRequest(req, of) ==
    /\ req.origin = of.origin
    /\ current_url(req) = of.url
    /\ req.credentials_mode = of.credentials_mode
    /\ req.method = of.method
    /\ req.headers = of.headers

\* http_fetch has decided about the preflight and sent nothing yet
PreflightDecided ==
    pc \in {"cors_preflight_fetch", "http_fetch_substep2"} /\ sent = << >>

\* C1: in every state of a fetch, whatever the server answers, the redirect
\* count of the request is at most 20.
C1_RedirectCountAtMost20 == request.redirect_count <= 20

C1_Witness == request.redirect_count = 20 /\ pc = "done"

\* C2: under redirect mode Follow, with a server that goes on redirecting: when
\* main_fetch is re-entered after the 20th redirect the Location of that redirect
\* is the 21st and last URL of the list, the request sent with redirect count 20
\* goes to that URL, and once that request is answered with a redirect too the
\* fetch holds a network error, the URL list still has 21 URLs, and no further
\* request is sent.
C2_TwentiethFollowedNextFails ==
    /\ (pc = "main_fetch" /\ recursive_flag /\ request.redirect_count = 20)
         => /\ Len(request.url_list) = 21
            /\ Last(request.url_list) = lastNet.location
    /\ lastNet.redirect_count = 20
         => /\ Len(request.url_list) = 21
            /\ lastNet.url = request.url_list[21]
    /\ (/\ lastNet.redirect_count = 20
        /\ LastNetRedirect
        /\ lastNet.redirect_mode = "Follow"
        /\ lastNet.cors # "fail"
        /\ pc # "http_redirect_fetch")
         => /\ pc \in Returned
            /\ is_network_error(response)
            /\ Len(request.url_list) = 21

C2_Witness ==
    /\ pc = "done"
    /\ lastNet.redirect_count = 20
    /\ LastNetRedirect
    /\ lastNet.url = request.url_list[21]
    /\ is_network_error(response)

\* C3: whenever http_redirect_fetch re-enters main_fetch, the method is GET and
\* the body absent if the status is 303, or is 301 or 302 with a POST request;
\* otherwise the method and the body are what they were.
C3_MethodRewrite ==
    [][(pc = "http_redirect_fetch" /\ pc' = "main_fetch")
         => IF \/ response.status = 303
               \/ response.status \in {301, 302} /\ request.method = "POST"
            THEN request'.method = "GET" /\ ~request'.body
            ELSE request'.method = request.method /\ request'.body = request.body]_vars

C3_Witness ==
    /\ pc = "main_fetch"
    /\ recursive_flag
    /\ lastNet.status = 302
    /\ lastNet.method = "POST"
    /\ given.body
    /\ request.method = "GET"
    /\ ~request.body

\* C4, as the spec states it: the response fetch returns for a NoCORS request is
\* of type Opaque or Error.
C4_AsStated ==
    (pc = "done" /\ given.mode = "NoCORS")
        => response.response_type \in {"Opaque", "Error"}

\* C4, amended: the response fetch returns for a NoCORS request is of type Opaque,
\* OpaqueRedirect or Error when main_fetch set the tainting to Opaque (some URL
\* of the fetch was neither same-origin, nor about:, nor same-origin data), and
\* of type Basic, OpaqueRedirect or Error when it did not.
C4_NoCorsTainting ==
    (pc = "done" /\ given.mode = "NoCORS")
        => response.response_type \in
             (IF request.response_tainting = "Opaque"
              THEN {"Opaque", "OpaqueRedirect", "Error"}
              ELSE {"Basic", "OpaqueRedirect", "Error"})

C4_Witness ==
    /\ pc = "done"
    /\ given.mode = "NoCORS"
    /\ request.response_tainting = "Opaque"
    /\ response.response_type = "Opaque"

\* C5, as the spec states it: when the request had redirect mode Manual at the
\* call of fetch and the server answered with a redirect status, the response
\* fetch returns is of type OpaqueRedirect.
C5_AsStated ==
    (/\ pc = "done"
     /\ given.redirect_mode = "Manual"
     /\ lastNet.ok
     /\ lastNet.status \in {301, 302, 303, 307, 308})
        => response.response_type = "OpaqueRedirect"

\* C5, amended: when the request still has redirect mode Manual as http_fetch
\* looks at the status (main_fetch did not take the preflight branch, which sets
\* it to Error), the response passed the CORS check where one is made, and the
\* status is a redirect status, http_fetch returns a response of type
\* OpaqueRedirect and nothing is sent after that exchange.
C5_ManualRedirect ==
    (/\ lastNet.ok
     /\ lastNet.status \in {301, 302, 303, 307, 308}
     /\ lastNet.redirect_mode = "Manual"
     /\ lastNet.cors # "fail")
        => /\ pc \in Returned \cup {"panicked"}
           /\ response.response_type = "OpaqueRedirect"
           /\ response.status = lastNet.status

C5_Witness ==
    /\ pc = "done"
    /\ given.redirect_mode = "Manual"
    /\ lastNet.status = 302
    /\ lastNet.location = UrlB
    /\ response.response_type = "OpaqueRedirect"

\* C6: when the CORS flag is set and the CORS check fails on the response of the
\* latest exchange, http_fetch has returned a network error, whatever the
\* status: nothing is followed or retried.
C6_CorsCheckFailure ==
    lastNet.cors = "fail" => pc \in Returned /\ is_network_error(response)

C6_Witness ==
    /\ pc = "done"
    /\ lastNet.cors = "fail"
    /\ lastNet.ok
    /\ lastNet.status \in {301, 401, 407}
    /\ lastNet.redirect_mode = "Follow"

\* C7, as the spec states it: when fetch has returned a response that is no
\* network error, for a HEAD or CONNECT request or with a null body status, the
\* body of the internal response is Empty.
C7_AsStated ==
    (/\ pc = "done"
     /\ ~is_network_error(response)
     /\ (request.method \in {"HEAD", "CONNECT"} \/ is_null_body_status(response.status)))
        => body = "Empty"

C9_ZeroMaxAge ==
    (/\ PreflightDecided
     /\ cors_preflight_flag
     /\ preflight.ok
     /\ preflight.max_age <= 0
     /\ SameRequest(request, preflight.of))
        => pc = "cors_preflight_fetch"

C9_Witness ==
    /\ pc = "cors_preflight_fetch"
    /\ sent = << >>
    /\ cors_preflight_flag
    /\ preflight.ok
    /\ preflight.max_age = 0
    /\ preflight.fetch < fetches
    /\ now = preflight.at
    /\ SameRequest(request, preflight.of)

\* C10: in http_fetch with the preflight flag, the request is not sent first
\* when its method or one of its headers is neither cached nor simple: OPTIONS
\* is; the request follows OPTIONS only when the preflight was accepted; and
\* after a preflight that was not, http_fetch has returned a network error and
\* sent nothing more.
C10_PreflightFirst ==
    /\ (pc = "http_fetch_substep2" /\ cors_preflight_flag /\ sent = << >>)
         => ~(method_mismatch(request, cache, now) \/ header_mismatch(request, cache, now))
    /\ Len(sent) >= 2
         => sent[1] = "OPTIONS" /\ sent[2] # "OPTIONS" /\ preflight.ok
    /\ (Len(sent) >= 1 /\ sent[1] = "OPTIONS" /\ ~preflight.ok)
         => /\ Len(sent) = 1
            /\ pc \in Returned
            /\ is_network_error(response)

C10_Witness ==
    /\ pc = "done"
    /\ sent = << "OPTIONS", "PUT" >>
    /\ preflight.ok
    /\ ~is_network_error(response)

\* the actual request of the latest exchange carried the caller's Accept-Language,
\* or en-US when the caller gave none
ActualAcceptLanguage ==
    lastNet.method # "none" =>
        /\ Has(lastNet.headers, "Accept-Language")
        /\ lastNet.headers["Accept-Language"] =
               IF Has(given.headers, "Accept-Language")
               THEN given.headers["Accept-Language"] ELSE "en-US"

\* C11 as stated: every request a fetch puts on the wire, the actual request on
\* every hop and the preflight OPTIONS request, carries Accept-Language: en-US
\* when the caller set none, and the caller's value when it set one.
C11_AsStated ==
    /\ ActualAcceptLanguage
    /\ preflight.run /\ ~Has(given.headers, "Accept-Language") =>
           /\ Has(preflight.wire[1].headers, "Accept-Language")
           /\ preflight.wire[1].headers["Accept-Language"] = "en-US"

\* C11, amended: the actual request of every hop carries Accept-Language, en-US
\* when the caller set none and the caller's value otherwise; the preflight
\* OPTIONS request carries the two Access-Control-Request headers and no
\* Accept-Language.
C11_AcceptLanguage ==
    /\ ActualAcceptLanguage
    /\ preflight.run =>
           DOMAIN preflight.wire[1].headers =
               {"Access-Control-Request-Method", "Access-Control-Request-Headers"}

\* a preflight and the actual request after it went out for a caller that set
\* no Accept-Language
C11_Witness ==
    /\ preflight.run /\ lastNet.method # "none" /\ pc = "done"
    /\ ~Has(given.headers, "Accept-Language")

\* C12 as stated: for a request with cache_mode Reload whose caller set neither
\* Cache-Control nor Pragma, the headers given to the connector hold
\* Pragma: no-cache and Cache-Control: no-cache, for every redirect_mode; a
\* value the caller set for either header is given to the connector as it is.
C12_AsStated ==
    lastNet.method # "none" /\ given.cache_mode = "Reload" =>
        /\ \A n \in {"Pragma", "Cache-Control"} :
               Has(given.headers, n) =>
                   Has(lastNet.headers, n) /\ lastNet.headers[n] = given.headers[n]
        /\ ~Has(given.headers, "Pragma") /\ ~Has(given.headers, "Cache-Control") =>
               /\ Has(lastNet.headers, "Pragma")
               /\ lastNet.headers["Pragma"] = "no-cache"
               /\ Has(lastNet.headers, "Cache-Control")
               /\ lastNet.headers["Cache-Control"] = "no-cache"

\* C13 as stated: for a request with cache_mode NoCache, whether the caller set
\* Cache-Control, removed it, or a fetch before left it on the request, every
\* request given to the connector carries Cache-Control: max-age=0.
C13_AsStated ==
    lastNet.method # "none" /\ given.cache_mode = "NoCache" =>
        /\ Has(lastNet.headers, "Cache-Control")
        /\ lastNet.headers["Cache-Control"] = "max-age=0"

\* C14: within one fetch, once response_tainting is Opaque or CORSTainting no
\* step changes it: it does not go back to Basic and does not pass from one of
\* the two to the other.
C14_TaintingKept ==
    [][request.response_tainting # "Basic" =>
           request'.response_tainting = request.response_tainting]_vars

\* a fetch tainted Opaque on its first hop ended after main_fetch took the
\* basic branch for a same-origin URL on a later hop
C14_Witness ==
    /\ pc = "done" /\ request.response_tainting = "Opaque"
    /\ request.redirect_count >= 1 /\ same_origin(request)
    /\ lastNet.redirect_count = request.redirect_count

\* what a step of the fetch does to the URL list
UrlListStep ==
    /\ \/ request'.url_list = request.url_list
       \/ /\ pc = "http_redirect_fetch" /\ pc' = "main_fetch"
          /\ JoinOk(response.location)
          /\ request'.url_list = Append(request.url_list, response.location)
    /\ pc = "http_redirect_fetch" /\ pc' = "main_fetch" =>
           request'.url_list # request.url_list
    /\ pc = "http_fetch_substep2" /\ pc' # pc =>
           /\ lastNet'.url = Last(request.url_list)
           /\ lastNet'.url = Last(request'.url_list)

\* C15: the URL list of a request is never empty; no step changes or removes
\* an element of it; the one step that changes it is the redirect that is
\* followed, which appends the URL the Location resolved to; and the URL of
\* every exchange with the connector is the last element of the list.
C15_UrlListGrows ==
    /\ [](Len(request.url_list) >= 1)
    /\ [][UrlListStep]_vars

\* a fetch ended after two followed redirects: three URLs, the last one requested
C15_Witness ==
    /\ pc = "done" /\ Len(request.url_list) = 3
    /\ lastNet.url = request.url_list[3] /\ lastNet.redirect_count = 2

\* C16 as stated, for the fetches whose main_fetch reaches the wait of step 19:
\* whatever the server answered and however the reader thread is scheduled,
\* the listener's response_available is invoked in the end, and the response
\* it is given is a network error or has a body that is Done.
C16_AsStated ==
    /\ (pc = "main_fetch_wait") ~> (pc = "response_available")
    /\ [](pc = "response_available" => is_network_error(response) \/ body = "Done")

\* main_fetch is past step 11 of the call fetch made
PastFilter == pc \in {"main_fetch_wait", "done"}

\* the type the filter of step 11 gives for a tainting
TypeOfTainting(tainting) ==
    CASE tainting = "Basic" -> "Basic"
      [] tainting = "CORSTainting" -> "CORS"
      [] tainting = "Opaque" -> "Opaque"

\* the fetch is a GET of a local URL of the given scheme, with no redirect
LocalGet(scheme) ==
    /\ PastFilter /\ given.method = "GET" /\ Len(request.url_list) = 1
    /\ Scheme(current_url(request)) = scheme

\* the response main_fetch returns is never Default, and one it wrapped has
\* the type of the tainting; main_fetch called by http_redirect_fetch returns
\* the response as it is
FilteredAtReturn ==
    /\ [](PastFilter =>
             /\ response.response_type # "Default"
             /\ response.internal /\ response.response_type # "OpaqueRedirect" =>
                    response.response_type = TypeOfTainting(request.response_tainting))
    /\ [][pc = "main_fetch_step10" /\ recursive_flag => response' = response]_vars

\* C17 as stated: the response fetch returns is never Default, a Default
\* response is wrapped with the type of the tainting, a recursive main_fetch
\* returns the response unfiltered, and GET about:blank and GET of a valid
\* data: URL return a Basic response with body Done.
C17_AsStated ==
    /\ FilteredAtReturn
    /\ [](LocalGet("about") \/ LocalGet("data") =>
             response.response_type = "Basic" /\ body = "Done")

\* C17, amended: as above, where GET of a valid data: URL returns a Basic
\* response with body Done when main_fetch takes the basic branch for it
\* (same_origin_data is set or the mode is Navigate); GET about:blank always does.
C17_ReturnedFiltered ==
    /\ FilteredAtReturn
    /\ [](LocalGet("about") => response.response_type = "Basic" /\ body = "Done")
    /\ [](LocalGet("data") /\ (given.same_origin_data \/ given.mode = "Navigate") =>
             response.response_type = "Basic" /\ body = "Done")

\* fetch returned the Basic response of a data: URL declared same-origin
C17_Witness ==
    /\ pc = "done" /\ LocalGet("data") /\ given.same_origin_data
    /\ given.mode = "NoCORS"
    /\ response.response_type = "Basic" /\ response.internal /\ body = "Done"

\* C18 as stated: when the connector failed to obtain a response for the
\* latest request, with cors_flag set or not, the response main_fetch holds to
\* return is a network error, and the fetch thread has not panicked.
C18_AsStated ==
    lastNet.method # "none" /\ ~lastNet.ok /\ pc \in {"main_fetch_wait", "done", "panicked"} =>
        is_network_error(response) /\ pc # "panicked"

\* cors_check returned, and what it returned
Checked == pc = "cors_check_done"
Passed == lastNet.cors = "pass"

\* C19 as stated: with credentials_mode Include, cors_check passes only for a
\* response that carries Access-Control-Allow-Credentials and an
\* Access-Control-Allow-Origin equal to the serialization of the request's
\* origin, whatever headers the request carries.
C19_AsStated ==
    Checked /\ request.credentials_mode = "Include" /\ Passed =>
        /\ response.acac
        /\ response.acao = AsciiSerialization(request.origin)

\* the Access-Control-Allow-Origin of the response is an origin value
ExplicitOrigin == response.acao \notin {"absent", "*", "null"}

\* C20: cors_check fails for a response without Access-Control-Allow-Origin;
\* with a credentials mode other than Include it passes exactly when the
\* header is the wildcard or an origin value equal to the serialization of the
\* request's origin; with Include the wildcard does not pass; a request whose
\* origin is Client or opaque does not pass against an origin value; the
\* header null passes for no request.
C20_CorsCheckOrigin ==
    Checked =>
        /\ response.acao = "absent" => ~Passed
        /\ request.credentials_mode # "Include" =>
               (Passed <=> \/ response.acao = "*"
                           \/ /\ ExplicitOrigin
                              /\ request.origin \notin {"Client", OpaqueOrigin}
                              /\ response.acao = AsciiSerialization(request.origin))
        /\ request.credentials_mode = "Include" /\ response.acao = "*" => ~Passed
        /\ ExplicitOrigin /\ request.origin \in {"Client", OpaqueOrigin} => ~Passed
        /\ ExplicitOrigin /\ response.acao # AsciiSerialization(request.origin) => ~Passed
        /\ response.acao = "null" => ~Passed

\* a request without credentials passed against the origin value of its origin
C20_Witness ==
    /\ Checked /\ Passed /\ request.credentials_mode = "Omit"
    /\ response.acao = OriginA /\ request.origin = OriginA

\* the step of cors_preflight_fetch, and the answer of the server in it
PreflightStep == pc = "cors_preflight_fetch" /\ pc' # pc
PreflightReturnsError == pc' = "main_fetch_step10" /\ is_network_error(response')
PreflightPassed(a) == a.ok /\ a.status \in 200..299 /\ cors_check(request, a.acao)

\* the method of the request is simple, or in the list of the answer, or the
\* list is empty and use_cors_preflight is set
AnswerAllowsMethod(a) ==
    \/ is_simple_method(request.method)
    \/ request.method \in a.allowMethods.v
    \/ a.allowMethods.v = {} /\ request.use_cors_preflight

\* every header of the request is simple or, without case, in the list of the answer
AnswerAllowsHeaders(a) ==
    \A n \in DOMAIN request.headers :
        \/ is_simple_header(n, request.headers[n])
        \/ \E h \in a.allowHeaders.v : Lower(h) = Lower(n)

AnswerParses(a) == a.allowMethods.h # "bad" /\ a.allowHeaders.h # "bad"

\* C21: cors_preflight_fetch changes the CORS cache only when the response
\* passed cors_check, had a 2xx status, and its method and header checks
\* succeeded; when it returns a network error the cache is as it was before.
C21_CacheWrittenLast ==
    [][PreflightStep =>
          /\ cache' # cache =>
                 /\ PreflightPassed(preflight'.answer[1])
                 /\ AnswerParses(preflight'.answer[1])
                 /\ AnswerAllowsMethod(preflight'.answer[1])
                 /\ AnswerAllowsHeaders(preflight'.answer[1])
                 /\ ~PreflightReturnsError
          /\ PreflightReturnsError => cache' = cache]_vars

\* the preflight of a second fetch was refused by the header check, with a
\* 2xx status and a passing cors_check, and the cache holds what the first
\* fetch wrote
C21_Witness ==
    /\ pc = "main_fetch_step10" /\ is_network_error(response) /\ fetches = 2
    /\ preflight.answer # << >> /\ cache # {}
    /\ PreflightPassed(preflight.answer[1]) /\ AnswerParses(preflight.answer[1])
    /\ ~AnswerAllowsHeaders(preflight.answer[1])

\* C22 as stated: for a 2xx preflight response that passes cors_check,
\* cors_preflight_fetch returns a network error exactly when the method is
\* not simple and not in the allowed methods (the method itself when the list
\* is empty and use_cors_preflight is set), or a header of the request is
\* neither simple nor, without case, in the allowed headers.
C22_AsStated ==
    [][PreflightStep /\ PreflightPassed(preflight'.answer[1]) =>
          (PreflightReturnsError <=>
               \/ ~AnswerAllowsMethod(preflight'.answer[1])
               \/ ~AnswerAllowsHeaders(preflight'.answer[1]))]_vars

\* C22, amended: ... or when an Access-Control-Allow-Methods or
\* Access-Control-Allow-Headers header is present and does not parse;
\* otherwise http_fetch goes on with the actual request.
C22_PreflightRejects ==
    [][PreflightStep /\ PreflightPassed(preflight'.answer[1]) =>
          /\ PreflightReturnsError <=>
                 \/ ~AnswerParses(preflight'.answer[1])
                 \/ ~AnswerAllowsMethod(preflight'.answer[1])
                 \/ ~AnswerAllowsHeaders(preflight'.answer[1])
          /\ ~PreflightReturnsError => pc' = "http_fetch_substep2"]_vars

\* a preflight was accepted for a request whose header is in the allowed
\* headers in another case
C22_Witness ==
    /\ pc = "http_fetch_substep2" /\ preflight.answer # << >> /\ preflight.ok
    /\ Has(request.headers, "X-Custom")
    /\ preflight.answer[1].allowHeaders.v = {"X-CUSTOM"}

\* C23 as stated, for a response of the network, whose body a reader was
\* spawned for: once the loaders have returned the response, its body slot
\* changes only in the order Empty, Receiving, Done: no step moves it from
\* Receiving or Done back to Empty, or from Done back to Receiving, and only
\* the steps of the body reader change it.
C23_AsStated ==
    [][(pc \in Returned) /\ reader # "none" =>
          /\ body \in {"Receiving", "Done"} => body' # "Empty"
          /\ body = "Done" => body' = "Done"
          /\ body' # body => reader' # reader]_vars

\* C29 as stated: the assertion of the body reader holds under every
\* interleaving with main_fetch: the reader thread never panics.
C29_AsStated == reader # "panicked"

\* http_redirect_fetch holds a Location that parses and has credentials, for
\* a fetch with cors_flag set or in CORS mode with an origin that is not the
\* origin of the current URL
CredentialsRedirect ==
    /\ pc = "http_redirect_fetch" /\ JoinOk(response.location)
    /\ has_credentials(response.location)
    /\ \/ cors_flag
       \/ request.mode = "CORSMode" /\ ~same_origin(request)

\* C24: in that case http_redirect_fetch returns a network error, appends
\* nothing to the URL list, and no request is sent to the Location: the
\* latest exchange stays the one that was answered with the redirect.
C24_CredentialsRedirect ==
    /\ [][CredentialsRedirect /\ pc' # pc =>
              /\ pc' = "main_fetch_step10" /\ is_network_error(response')
              /\ request'.url_list = request.url_list
              /\ lastNet' = lastNet]_vars
    /\ [](/\ pc \in Returned /\ LastNetRedirect /\ lastNet.redirect_mode = "Follow"
           /\ has_credentials(lastNet.location) /\ lastNet.cors # "none"
           => /\ is_network_error(response)
              /\ current_url(request) = lastNet.url)

\* a CORS fetch ended with a network error on a redirect, which passed the
\* CORS check, to a URL with credentials
C24_Witness ==
    /\ pc = "done" /\ LastNetRedirect /\ lastNet.cors = "pass"
    /\ lastNet.location = UrlBC /\ is_network_error(response)
    /\ request.redirect_count = lastNet.redirect_count + 1
    /\ current_url(request) = lastNet.url

\* a step of http_fetch that calls http_network_or_cache_fetch
NetworkOrCacheStep == pc = "http_fetch_substep2" /\ pc' # pc

\* the headers and the cache mode steps 5 to 13 give a request
Synthesized(before, after, auth_flag) ==
    /\ Has(after.headers, "Referer") /\ Has(after.headers, "User-Agent")
    /\ before.body \/ before.method \in {"HEAD", "POST", "PUT"}
          => Has(after.headers, "Content-Length")
    /\ before.cache_mode = "NoCache" => Has(after.headers, "Cache-Control")
    /\ before.cache_mode = "Reload"
          => Has(after.headers, "Pragma") /\ Has(after.headers, "Cache-Control")
    /\ auth_flag /\ CredentialsFlag(before) /\ has_credentials(current_url(before))
          => Has(after.headers, "Authorization")
    /\ after.cache_mode =
          IF before.cache_mode = "Default" /\ is_no_store_cache(before.headers)
          THEN "NoStore" ELSE before.cache_mode
    /\ \A n \in DOMAIN before.headers :
          Has(before.headers, n) => after.headers[n] = before.headers[n]

\* C25: with redirect_mode Follow, http_network_or_cache_fetch leaves the
\* headers and the cache mode of the request of its caller as they were, on
\* every hop; with another redirect mode the synthesized headers and the
\* upgrade to NoStore are applied to that request itself.
C25_CloneUnlessShared ==
    /\ [][NetworkOrCacheStep =>
              IF request.redirect_mode = "Follow"
              THEN /\ request'.headers = request.headers
                   /\ request'.cache_mode = request.cache_mode
              ELSE Synthesized(request, request', authentication_fetch_flag)]_vars
    /\ [](request.redirect_mode = "Follow" =>
              /\ ~Has(request.headers, "Referer")
              /\ ~Has(request.headers, "User-Agent")
              /\ request.cache_mode = given.cache_mode)

\* a Follow fetch with cache mode Reload ended after a redirect without the
\* synthesized headers on its request
C25_Witness ==
    /\ pc = "done" /\ request.redirect_mode = "Follow" /\ request.redirect_count > 0
    /\ lastNet.method # "none" /\ given.cache_mode = "Reload"
    /\ ~Has(request.headers, "Pragma") /\ ~Has(request.headers, "Referer")

\* the current URL is of another origin than the request, about: and the
\* data: URLs the caller declared same-origin apart
CrossOriginUrl(req) ==
    /\ ~same_origin(req)
    /\ Scheme(current_url(req)) # "about"
    /\ ~(Scheme(current_url(req)) \in {"data", "file"} /\ req.same_origin_data)

\* a request, OPTIONS included, goes out on the step
RequestGoesOut == Len(sent') > Len(sent)

\* C26: a fetch in mode SameOrigin sends requests only to URLs of the origin
\* of the request, on the first hop and after every redirect, and a
\* cross-origin current URL gives a network error.
C26_SameOriginMode ==
    /\ [][given.mode = "SameOrigin" /\ RequestGoesOut =>
              /\ sent'[Len(sent')] # "OPTIONS"
              /\ request'.origin = given.origin
              /\ lastNet'.url = current_url(request')
              /\ OriginEq(given.origin, UrlOriginOf(lastNet'.url))]_vars
    /\ [](given.mode = "SameOrigin" /\ pc \in Returned /\ CrossOriginUrl(request)
              => is_network_error(response) /\ lastNet.url # current_url(request))

\* a SameOrigin fetch ended with a network error after its same-origin URL
\* redirected to another origin, with no request sent there
C26_Witness ==
    /\ pc = "done" /\ given.mode = "SameOrigin" /\ is_network_error(response)
    /\ LastNetRedirect /\ lastNet.url = UrlA /\ lastNet.location = UrlB
    /\ request.url_list = << UrlA, UrlB >> /\ Len(sent) = 1

\* main_fetch takes the preflight branch on the step
EntersPreflightBranch == pc = "main_fetch" /\ pc' = "http_fetch" /\ cors_preflight_flag'

\* the request of the fetch itself is answered with a redirect status
AnsweredWithRedirect ==
    /\ pc = "http_fetch_substep2" /\ Len(sent') > Len(sent)
    /\ lastNet'.ok /\ lastNet'.status \in RedirectStatuses

\* C27: the preflight branch sets the tainting CORSTainting and the redirect
\* mode Error before http_fetch; a redirect status on that branch gives a
\* network error and is not followed, whatever redirect mode the caller
\* gave, and the redirect mode of the request is Error when fetch returns.
C27_PreflightBranchRedirects ==
    /\ [][EntersPreflightBranch =>
              /\ request'.response_tainting = "CORSTainting"
              /\ request'.redirect_mode = "Error"]_vars
    /\ [][cors_preflight_flag /\ AnsweredWithRedirect =>
              /\ pc' = "main_fetch_step10" /\ is_network_error(response')
              /\ request'.url_list = request.url_list
              /\ request'.redirect_count = request.redirect_count]_vars
    /\ [](cors_preflight_flag /\ pc \in Returned \cup {"http_fetch", "http_fetch_substep2"}
              => /\ request.redirect_mode = "Error"
                 /\ request.url_list = given.url_list)

\* a fetch the caller gave redirect mode Follow took the preflight branch and
\* ended with a network error on a redirect that passed the CORS check
C27_Witness ==
    /\ pc = "done" /\ cors_preflight_flag /\ given.redirect_mode = "Follow"
    /\ request.redirect_mode = "Error" /\ is_network_error(response)
    /\ LastNetRedirect /\ lastNet.cors = "pass" /\ lastNet.location # lastNet.url

\* C28 as stated: when main_fetch has returned from the preflight branch
\* with a network error, the CORS cache holds no entry for the URL the
\* request went to.
C28_AsStated ==
    (cors_preflight_flag /\ pc \in Returned /\ is_network_error(response))
        => \A e \in cache : e.destination # current_url(request)

\* C30 as stated: every fetch comes, after finitely many requests, to the
\* point where its loaders have returned to main_fetch and nothing more is
\* sent, whatever the server answers.
C30_AsStated == <>(pc \in Returned \cup {"panicked", "response_available"})

\* the URLs appended to the URL list since the fetch began
Appended == Len(request.url_list) - Len(given.url_list)

\* a call of http_redirect_fetch returns or goes on to main_fetch
RedirectCall == pc = "http_redirect_fetch" /\ pc' # pc

\* the call holds a Location that parses, below the redirect limit
PassesLocationAndLimit ==
    /\ response.location # LocNone /\ JoinOk(response.location)
    /\ request.redirect_count < RedirectLimit

\* the latest redirect was counted and then rejected for the credentials of
\* its Location, which ended the fetch with a network error
RejectedForCredentials ==
    /\ pc \in Returned /\ is_network_error(response)
    /\ LastNetRedirect /\ has_credentials(lastNet.location)
    /\ lastNet.url = current_url(request)
    /\ request.redirect_count = lastNet.redirect_count + 1

\* one step of a fetch, for the redirect counter and the URL list
RedirectCountStep ==
    /\ request'.redirect_count # request.redirect_count =>
           /\ RedirectCall /\ PassesLocationAndLimit
           /\ request'.redirect_count = request.redirect_count + 1
    /\ RedirectCall /\ PassesLocationAndLimit =>
           request'.redirect_count = request.redirect_count + 1
    /\ RedirectCall /\ ~PassesLocationAndLimit =>
           request'.url_list = request.url_list
    /\ Len(request'.url_list) # Len(request.url_list) =>
           /\ RedirectCall /\ PassesLocationAndLimit
           /\ Len(request'.url_list) = Len(request.url_list) + 1

\* C31: the URLs appended since the fetch began are never more than
\* redirect_count; redirect_count changes only in http_redirect_fetch, by one
\* for each call whose Location parses below the limit; the two are equal
\* unless the credentials checks rejected a redirect after it was counted;
\* a redirect with no Location or one that does not parse changes neither.
C31_RedirectCount ==
    /\ [][RedirectCountStep]_vars
    /\ [](/\ Appended <= request.redirect_count
           /\ request.redirect_count <= RedirectLimit
           /\ Appended # request.redirect_count =>
                 Appended + 1 = request.redirect_count /\ RejectedForCredentials)

\* a fetch followed one redirect and ended on a second one, which was counted
\* and rejected for the credentials of its Location
C31_Witness ==
    /\ pc = "done" /\ Appended = 1 /\ request.redirect_count = 2
    /\ RejectedForCredentials

====
